---- MODULE Spec2Model ----
(***************************************************************************)
(* Model of js/textbatch.js: the feedback router, the queue trigger and    *)
(* the node lifecycle registration of the TextBatch browser extension.     *)
(* The file holds two builds of the same handlers (lines 1-257, the plain  *)
(* build, and lines 258-448, the build with optional chaining), each with  *)
(* its own imports and its own nodeIdMap; `variant` says which one is      *)
(* loaded, or that the file is loaded as the one module it is laid out as, *)
(* which does not parse and installs nothing.                              *)
(***************************************************************************)
EXTENDS Integers, Sequences, FiniteSets, TLC

\* ------------------------------------------------------------ bounds
\* Node objects the host constructs in one behaviour.
MaxNodes == 2
\* textbatch-add-queue events received in one behaviour.
MaxEvents == 2
\* textbatch-node-feedback events received in one behaviour.
MaxFeedback == 1
\* The clock advances in steps of this many time units.
TimeStep == 50
\* Reset actions that reach app.graphToPrompt() in one behaviour.
MaxResets == 2

\* ------------------------------------------------------------ program constants
\* Delay of the queue trigger's timer (setTimeout(..., 100)).
QueueDelay == 100
\* Delay of the deferred registration's timer (setTimeout(..., 0)).
RegDelay == 0
\* Arguments of the enqueue call app.queuePrompt(0, 1).
QueueNumber == 0
QueueBatch == 1

\* ------------------------------------------------------------ JavaScript values
\* A value is a record: t the type tag, n the number, s the string's characters.
Undef == [t |-> "undef", n |-> 0, s |-> <<>>]
NaN == [t |-> "nan", n |-> 0, s |-> <<>>]
Num(k) == [t |-> "num", n |-> k, s |-> <<>>]
Str(cs) == [t |-> "str", n |-> 0, s |-> cs]
\* Infinity (sign = 1) and -Infinity (sign = -1).
Inf(sign) == [t |-> "inf", n |-> sign, s |-> <<>>]

\* Strings are sequences of characters drawn from the digits, the signs, the
\* space, and letters; numerals with a fraction (".") or a decimal exponent
\* ("1e3") are not among the strings of the model, whose numbers are integers
\* and the two infinities.
HexDigits == <<"0", "1", "2", "3", "4", "5", "6", "7", "8", "9", "a", "b", "c", "d", "e", "f">>

HexUpper == <<"0", "1", "2", "3", "4", "5", "6", "7", "8", "9", "A", "B", "C", "D", "E", "F">>

\* Whether c is a digit in the radix (2, 8, 10 or 16).
IsDigit(c, radix) ==
    \E i \in 1..radix : HexDigits[i] = c \/ HexUpper[i] = c

DigitVal(c) == (CHOOSE i \in 1..16 : HexDigits[i] = c \/ HexUpper[i] = c) - 1

IsSpace(c) == c = " "

\* A plausible slip of a guard: every value taken for truthy.
TruthyAlways(v) == TRUE

\* ToBoolean: undefined, NaN, 0 and "" are falsy.
Truthy(v) ==
    CASE v.t = "undef" -> FALSE
      [] v.t = "nan" -> FALSE
      [] v.t = "num" -> v.n # 0
      [] v.t = "inf" -> TRUE
      [] OTHER -> v.s # <<>>

InfinityChars == <<"I", "n", "f", "i", "n", "i", "t", "y">>

RECURSIVE NatChars(_)
NatChars(k) ==
    IF k < 10 THEN <<HexDigits[k + 1]>>
    ELSE NatChars(k \div 10) \o <<HexDigits[(k % 10) + 1]>>

\* ToString.
ToStr(v) ==
    CASE v.t = "undef" -> <<"u", "n", "d", "e", "f", "i", "n", "e", "d">>
      [] v.t = "nan" -> <<"N", "a", "N">>
      [] v.t = "num" -> IF v.n < 0 THEN <<"-">> \o NatChars(0 - v.n) ELSE NatChars(v.n)
      [] v.t = "inf" -> IF v.n < 0 THEN <<"-">> \o InfinityChars ELSE InfinityChars
      [] OTHER -> v.s

RECURSIVE SkipSpaces(_)
SkipSpaces(cs) ==
    IF cs # <<>> /\ IsSpace(Head(cs)) THEN SkipSpaces(Tail(cs)) ELSE cs

RECURSIVE DropTrailingSpaces(_)
DropTrailingSpaces(cs) ==
    IF cs # <<>> /\ IsSpace(cs[Len(cs)])
    THEN DropTrailingSpaces(SubSeq(cs, 1, Len(cs) - 1))
    ELSE cs

\* The longest prefix of digits of the radix.
RECURSIVE DigitPrefix(_, _)
DigitPrefix(cs, radix) ==
    IF cs # <<>> /\ IsDigit(Head(cs), radix)
    THEN <<Head(cs)>> \o DigitPrefix(Tail(cs), radix)
    ELSE <<>>

\* The number a sequence of digits denotes, most significant first.
RECURSIVE DigitsValue(_, _, _)
DigitsValue(cs, radix, acc) ==
    IF cs = <<>> THEN acc
    ELSE DigitsValue(Tail(cs), radix, acc * radix + DigitVal(Head(cs)))

\* Whether cs starts with 0x or 0X.
HasHexPrefix(cs) == Len(cs) >= 2 /\ cs[1] = "0" /\ cs[2] \in {"x", "X"}

\* A plausible slip of the conversion: the event value assigned as it came.
ParseIntSkipped(v) == v

\* parseInt(v) with no radix: ToString, skip leading white space, an optional
\* sign, an optional 0x (radix 16), then the longest prefix of digits; NaN when
\* there is none.
ParseInt(v) ==
    LET cs == SkipSpaces(ToStr(v))
        neg == cs # <<>> /\ Head(cs) = "-"
        signed == cs # <<>> /\ Head(cs) \in {"-", "+"}
        body == IF signed THEN Tail(cs) ELSE cs
        radix == IF HasHexPrefix(body) THEN 16 ELSE 10
        ds == DigitPrefix(IF radix = 16 THEN SubSeq(body, 3, Len(body)) ELSE body, radix)
    IN  IF ds = <<>> THEN NaN
        ELSE Num(IF neg THEN 0 - DigitsValue(ds, radix, 0) ELSE DigitsValue(ds, radix, 0))

\* The radix a 0x, 0b or 0o prefix (in either case) announces, 0 when cs has
\* none.
PrefixRadix(cs) ==
    IF Len(cs) < 2 \/ cs[1] # "0" THEN 0
    ELSE CASE cs[2] \in {"x", "X"} -> 16
           [] cs[2] \in {"b", "B"} -> 2
           [] cs[2] \in {"o", "O"} -> 8
           [] OTHER -> 0

\* ToNumber of a string: white space trimmed, "" is 0, and the whole of the rest
\* must be an unsigned 0x, 0b or 0o numeral, a signed decimal numeral, or a
\* signed Infinity; NaN otherwise.
StrToNumber(cs) ==
    LET body == DropTrailingSpaces(SkipSpaces(cs))
        neg == body # <<>> /\ Head(body) = "-"
        signed == body # <<>> /\ Head(body) \in {"-", "+"}
        rest == IF signed THEN Tail(body) ELSE body
        radix == PrefixRadix(body)
        ds == SubSeq(body, 3, Len(body))
    IN  IF body = <<>> THEN Num(0)
        ELSE IF radix # 0
             THEN IF ds # <<>> /\ DigitPrefix(ds, radix) = ds
                  THEN Num(DigitsValue(ds, radix, 0)) ELSE NaN
        ELSE IF rest = InfinityChars THEN Inf(IF neg THEN -1 ELSE 1)
        ELSE IF rest # <<>> /\ DigitPrefix(rest, 10) = rest
             THEN Num(IF neg THEN 0 - DigitsValue(rest, 10, 0) ELSE DigitsValue(rest, 10, 0))
             ELSE NaN

\* a == b for the values of the model: a number against a string compares the
\* string's ToNumber; NaN equals nothing; undefined equals only undefined.
LooseEq(a, b) ==
    CASE a.t = "nan" \/ b.t = "nan" -> FALSE
      [] a.t = b.t -> a = b
      [] a.t \in {"num", "inf"} /\ b.t = "str" -> StrToNumber(b.s) = a
      [] a.t = "str" /\ b.t \in {"num", "inf"} -> StrToNumber(a.s) = b
      [] OTHER -> FALSE

\* Map keys compare by SameValueZero: same type and same value, NaN equal to NaN.
SameValueZero(a, b) == a = b

\* An object's property key is the value's string.
SameKey(a, b) == ToStr(a) = ToStr(b)

\* ------------------------------------------------------------ the state
\* Node objects are 1..MaxNodes; None is "no node" (undefined).
Objs == 1..MaxNodes

None == 0

\* The identifiers the host hands out.
HostIds == {Num(k) : k \in 1..MaxNodes}

\* The placeholder identifier of a node not yet added to a graph.
Placeholder == Num(-1)

VARIABLES
    variant,    \* 1: the build of lines 1-257; 2: the build of lines 258-448;
                \* 0: lines 1-448 as one module
    life,       \* per node: "none", "created", "inGraph", "removed"
    nid,        \* per node: this.id
    widgets,    \* per node: [present, items], this.widgets
    nstatus,    \* per node: this.status
    nodeIdMap,  \* the identifier cache: a function from keys to nodes
    timers,     \* the pending setTimeout callbacks, in the order they were set
    nEvents,    \* textbatch-add-queue events received so far
    nFeedback,  \* textbatch-node-feedback events received so far
    calls,      \* the app.queuePrompt calls made so far
    born,       \* per node: how the creation hook found this.id ("none" before)
    reg,        \* per node: where the cache registration was made, if anywhere
    obs,        \* what the last step did: its inputs, its outcome, its logs
    checks,     \* per node: how many times the identifier's validity was checked
    scheduled,  \* per node: how many deferred registrations were scheduled
    protos,     \* per processor type: the methods beforeRegisterNodeDef gave its prototype
    pnodes,     \* the processor nodes the host has constructed, in order
    promises,   \* the pending app.graphToPrompt() promises of resets, in order
    submits,    \* the app.queuePrompt(output, workflow) calls of resets so far
    addWidget   \* per node: whether the node has an addWidget method

\* The counters of the lifecycle and the state of the processor classes.
countVars == <<checks, scheduled>>

procVars == <<protos, pnodes, promises, submits>>

vars ==
    <<variant, life, nid, widgets, nstatus, nodeIdMap, timers, nEvents, nFeedback, calls, born,
      reg, obs, checks, scheduled, protos, pnodes, promises, submits, addWidget>>

\* A widget: its name, its value, and its callback ("none", "host": a callback
\* of the host's, "status": the status widget's callback of this extension).
Widget(name, value, cb) == [name |-> name, value |-> value, cb |-> cb]

\* The widget lists a node may have when the host constructs it: none at all,
\* or a start_index widget with or without a callback.
WidgetTemplates ==
    { [present |-> FALSE, items |-> <<>>],
      [present |-> TRUE, items |-> <<Widget("start_index", Num(0), "host")>>],
      [present |-> TRUE, items |-> <<Widget("start_index", Num(0), "none")>>] }

\* What the host offers at the time of an event: the graph, its id-indexed
\* table, its getter method and its node list may each be absent.
HostConds ==
    { h \in [graph : BOOLEAN, table : BOOLEAN, getter : BOOLEAN, list : BOOLEAN] :
        ~h.graph => (h.table /\ h.getter /\ h.list) }

FullHost == [graph |-> TRUE, table |-> TRUE, getter |-> TRUE, list |-> TRUE]

\* The payloads of textbatch-node-feedback events (event.detail).
NodeIdInputs == { Undef, Num(1), Num(2), Str(<<"1">>), Str(<<"1", "x">>), Str(<<"0", "b", "1">>) }

ValueInputs == { Str(<<"4", "2">>), Str(<<"-", "3", "x">>), Str(<<"x">>), Num(7) }

NoDetail ==
    [detail |-> FALSE, node_id |-> Undef, widget_name |-> "", type |-> "", value |-> Undef]

Payload(id, name, type, value) ==
    [detail |-> TRUE, node_id |-> id, widget_name |-> name, type |-> type, value |-> value]

\* The inputs of the feedback handler: the event, the host's condition, and
\* whether a host callback throws. Two families: every identifier under every
\* condition of the host with one assignment, and every assignment (widget
\* name, type tag, value, callback outcome) to node 1 under a whole host.
RoutingInputs ==
    { <<ev, hc, FALSE>> :
        ev \in {NoDetail} \cup {Payload(id, "start_index", "int", Str(<<"4", "2">>)) : id \in NodeIdInputs},
        hc \in HostConds }

AssignmentInputs ==
    { <<Payload(x[1], x[2], x[3], x[4]), FullHost, x[5]>> :
        x \in {Num(1), Str(<<"1">>)} \X {"start_index", "status", "missing"} \X {"int", "text"}
              \X ValueInputs \X BOOLEAN }

FeedbackInputs == RoutingInputs \cup AssignmentInputs

\* The node types beforeRegisterNodeDef of the rgthree.TextBatch extension is
\* called with: the two it names and one it does not.
NodeTypes == {"TextQueueProcessor", "ImageQueueProcessor", "TextBatch"}

\* What this extension has done to a node type's prototype: whether
\* beforeRegisterNodeDef has run for the type, the methods it gave the
\* prototype, and whether it threw.
NoProto == [registered |-> FALSE, methods |-> {}, threw |-> FALSE]

\* The record of a step that is no run of an event handler or removal hook.
BlankObs ==
    [op |-> "none", ev |-> NoDetail, hc |-> FullHost, out |-> "", node |-> None,
     consulted |-> <<>>, warns |-> 0, errors |-> 0, cbs |-> <<>>, escaped |-> FALSE,
     hasPrev |-> FALSE, prev |-> 0, e |-> 0, fault |-> "", proc |-> FALSE, sched |-> 0,
     steps |-> <<>>, args |-> <<>>, prevArgs |-> <<>>, total |-> Undef,
     ptype |-> "", outputs |-> [present |-> FALSE, slots |-> <<>>]]

\* Whether the module was evaluated, so that its listeners and extensions
\* exist. Lines 1-448 as one module import app and api twice (lines 1-2 and
\* 258-259) and declare const nodeIdMap twice (lines 5 and 262): a SyntaxError
\* before any statement runs.
Loaded == variant # 0

Init ==
    /\ variant \in {0, 1, 2}
    /\ life = [n \in Objs |-> "none"]
    /\ nid = [n \in Objs |-> Undef]
    /\ widgets = [n \in Objs |-> [present |-> FALSE, items |-> <<>>]]
    /\ nstatus = [n \in Objs |-> Undef]
    /\ nodeIdMap = <<>>
    /\ timers = <<>>
    /\ nEvents = 0
    /\ nFeedback = 0
    /\ calls = <<>>
    /\ born = [n \in Objs |-> "none"]
    /\ reg = [n \in Objs |-> "no"]
    /\ obs = BlankObs
    /\ checks = [n \in Objs |-> 0]
    /\ scheduled = [n \in Objs |-> 0]
    /\ protos = [t \in NodeTypes |-> NoProto]
    /\ pnodes = <<>>
    /\ promises = <<>>
    /\ submits = <<>>
    /\ addWidget = [n \in Objs |-> TRUE]

\* ------------------------------------------------------------ the identifier cache
\* nodeIdMap.get(key): the node stored under the key, undefined when there is none.
CacheGet(map, key) ==
    IF \E k \in DOMAIN map : SameValueZero(k, key) THEN map[key] ELSE None

\* A plausible slip of the registration: an entry never written.
CacheSetDropped(map, key, node) == map

\* nodeIdMap.set(key, node).
CacheSet(map, key, node) ==
    [k \in DOMAIN map \cup {key} |-> IF k = key THEN node ELSE map[k]]

\* A plausible slip of the eviction: the whole cache cleared.
CacheClear(map, key) == <<>>

\* nodeIdMap.delete(key).
CacheDelete(map, key) ==
    [k \in DOMAIN map \ {key} |-> map[k]]

\* ------------------------------------------------------------ the host's lookups
\* The nodes of the graph. The host keeps identifiers unique among them.
InGraph == {n \in Objs : life[n] = "inGraph"}

PickNode(S) == IF S = {} THEN None ELSE CHOOSE n \in S : \A m \in S : n <= m

\* app.graph._nodes_by_id[key]: the table is indexed by the key's string.
TableLookup(key) == PickNode({n \in InGraph : SameKey(nid[n], key)})

\* app.graph.getNodeById(arg): the host reads its table.
GetterLookup(arg) == PickNode({n \in InGraph : SameKey(nid[n], arg)})

\* [...app.graph.nodes].find(n => n.id == nodeId).
ScanLookup(nodeId) == PickNode({n \in InGraph : LooseEq(nid[n], nodeId)})

\* ------------------------------------------------------------ the feedback router
Found(node, consulted) == [node |-> node, consulted |-> consulted, threw |-> FALSE]

Threw(consulted) == [node |-> None, consulted |-> consulted, threw |-> TRUE]

\* The resolution of the target node: the cache, then, on a miss, the chain
\*   _nodes_by_id[nodeId] || getNodeById(parseInt(nodeId)) || [...nodes].find(...)
\* which stops at the first lookup that finds a node. v = 1 dereferences each
\* host collection as it is (an absent one throws a TypeError); v = 2 reads them
\* through ?. and || [], so that only an absent graph throws. consulted lists
\* the lookups performed.
Resolve(v, map, hc, nodeId) ==
    LET c == CacheGet(map, nodeId)
        c0 == <<"cache">>
        c1 == IF hc.table THEN Append(c0, "table") ELSE c0
        t == IF hc.table THEN TableLookup(nodeId) ELSE None
        c2 == IF hc.getter THEN Append(c1, "getter") ELSE c1
        g == IF hc.getter THEN GetterLookup(ParseInt(nodeId)) ELSE None
        c3 == IF hc.list THEN Append(c2, "scan") ELSE c2
        f == IF hc.list THEN ScanLookup(nodeId) ELSE None
    IN  IF c # None THEN Found(c, c0)
        ELSE IF ~hc.graph \/ (v = 1 /\ ~hc.table) THEN Threw(c0)
        ELSE IF t # None THEN Found(t, c1)
        ELSE IF v = 1 /\ ~hc.getter THEN Threw(c1)
        ELSE IF g # None THEN Found(g, c2)
        ELSE IF v = 1 /\ ~hc.list THEN Threw(c2)
        ELSE Found(f, c3)

\* A plausible slip of the search: the first widget taken whatever its name.
FindWidgetAny(items, name) == IF items # <<>> THEN 1 ELSE 0

\* node.widgets.find(w => w.name === name): the index of the first widget of
\* that name, 0 when there is none.
FindWidget(items, name) ==
    IF \E i \in 1..Len(items) : items[i].name = name
    THEN CHOOSE i \in 1..Len(items) :
            /\ items[i].name = name
            /\ \A j \in 1..(i - 1) : items[j].name # name
    ELSE 0

\* The value the handler assigns: parseInt(data.value) under type "int", the
\* value as it came otherwise.
Coerce(type, value) == IF type = "int" THEN ParseInt(value) ELSE value

\* One callback invocation: the node, the widget's index, the argument.
CbCall(n, i, arg) == [node |-> n, wi |-> i, arg |-> arg]

\* A plausible slip of the notification: the callback never invoked.
CallbackSkipped(n, i, w) == <<>>

\* if (widget.callback) widget.callback(widget.value): the invocations made.
InvokeCallback(n, i, w) ==
    IF w.cb = "none" THEN <<>> ELSE <<CbCall(n, i, w.value)>>

\* What a run of the handler read of its event: the node identifier always,
\* the widget name once the search of the found node's widgets or the warning
\* of a missing widget reads it, the type and the value once the widget was
\* found.
EvRead(ev, upto) ==
    CASE upto = "id" -> [NoDetail EXCEPT !.detail = ev.detail, !.node_id = ev.node_id]
      [] upto = "name" -> [ev EXCEPT !.type = "", !.value = Undef]
      [] OTHER -> ev

\* What it read of the host: nothing on a cache hit.
HcRead(map, hc, nodeId) == IF CacheGet(map, nodeId) # None THEN FullHost ELSE hc

\* The textbatch-node-feedback handler, whole. cbThrows: whether a host
\* callback, if one is invoked, throws.
Feedback(ev, hc, cbThrows) ==
    LET r == Resolve(variant, nodeIdMap, hc, ev.node_id)
        n == r.node
        i == FindWidget(widgets[n].items, ev.widget_name)
        w == [widgets[n].items[i] EXCEPT !.value = Coerce(ev.type, ev.value)]
        threw == w.cb = "host" /\ cbThrows
        o == [BlankObs EXCEPT !.op = "feedback", !.consulted = r.consulted, !.node = n,
                              !.hc = HcRead(nodeIdMap, hc, ev.node_id)]
    IN  /\ Loaded
        /\ nFeedback < MaxFeedback
        /\ nFeedback' = nFeedback + 1
        /\ IF ~ev.detail \/ ~Truthy(ev.node_id)
           THEN \* console.error("Invalid data received:") and return
                /\ obs' = [BlankObs EXCEPT !.op = "feedback", !.ev = EvRead(ev, "id"),
                                           !.out = "invalid", !.errors = 1]
                /\ UNCHANGED <<widgets, nstatus>>
           ELSE IF r.threw
           THEN \* a TypeError of the resolution, caught
                /\ obs' = [o EXCEPT !.ev = EvRead(ev, "id"), !.out = "caught", !.errors = 1]
                /\ UNCHANGED <<widgets, nstatus>>
           ELSE IF n = None
           THEN \* console.warn("Node not found by ID:") and return
                /\ obs' = [o EXCEPT !.ev = EvRead(ev, "id"), !.out = "notfound", !.warns = 1]
                /\ UNCHANGED <<widgets, nstatus>>
           ELSE IF ~widgets[n].present /\ variant = 1
           THEN \* node.widgets.find on an absent list: a TypeError, caught, thrown
                \* before the search reads data.widget_name
                /\ obs' = [o EXCEPT !.ev = EvRead(ev, "id"), !.out = "caught", !.errors = 1]
                /\ UNCHANGED <<widgets, nstatus>>
           ELSE IF ~widgets[n].present \/ i = 0
           THEN \* console.warn("Widget not found:") and return
                /\ obs' = [o EXCEPT !.ev = EvRead(ev, "name"), !.out = "nowidget", !.warns = 1]
                /\ UNCHANGED <<widgets, nstatus>>
           ELSE /\ widgets' = [widgets EXCEPT ![n].items[i] = w]
                /\ nstatus' = IF w.cb = "status" THEN [nstatus EXCEPT ![n] = w.value]
                              ELSE nstatus
                /\ obs' = [o EXCEPT !.ev = ev,
                                    !.out = IF threw THEN "caught" ELSE "assigned",
                                    !.errors = IF threw THEN 1 ELSE 0,
                                    !.cbs = InvokeCallback(n, i, w)]
        /\ UNCHANGED <<countVars, procVars, addWidget>>
        /\ UNCHANGED <<variant, life, nid, nodeIdMap, timers, nEvents, calls, born, reg>>

\* ------------------------------------------------------------ timers
\* A pending setTimeout callback: kind "queue" (the delayed enqueue of event
\* who) or "reg" (the deferred registration of node who), the time left until
\* it is due, and the time it has waited since it was set.
Timer(kind, who, delay) == [kind |-> kind, who |-> who, left |-> delay, waited |-> 0]

DelayOf(kind) == IF kind = "queue" THEN QueueDelay ELSE RegDelay

\* A plausible slip of the timers: a callback that stays scheduled after it ran
\* (setInterval for setTimeout).
KeepAt(seq, i) == seq

RemoveAt(seq, i) == SubSeq(seq, 1, i - 1) \o SubSeq(seq, i + 1, Len(seq))

\* A timer may run once it is due and every timer set before it with the same
\* delay has run. Between due timers of different delays the host chooses: a
\* browser runs the one that became due first, Node runs the due timers of
\* one delay together, also ahead of a timer of another delay set before them.
MayFire(i) ==
    /\ i \in 1..Len(timers)
    /\ timers[i].left = 0
    /\ \A j \in 1..(i - 1) : DelayOf(timers[j].kind) # DelayOf(timers[i].kind)

\* Time passes while a timer is still waiting to become due.
Advance ==
    /\ \E i \in 1..Len(timers) : timers[i].left > 0
    /\ timers' = [i \in 1..Len(timers) |->
                    [timers[i] EXCEPT
                        !.left = IF @ > TimeStep THEN @ - TimeStep ELSE 0,
                        !.waited = @ + TimeStep]]
    /\ obs' = BlankObs
    /\ UNCHANGED <<countVars, procVars, addWidget>>
    /\ UNCHANGED <<variant, life, nid, widgets, nstatus, nodeIdMap, nEvents, nFeedback, calls, born, reg>>

\* ------------------------------------------------------------ the queue trigger
\* The faults of the synchronous setup, app.graph.serialize(): none, the graph
\* or the method absent, or the call throwing an Error or a nullish value.
SerializeFaults == {"ok", "graphAbsent", "absent", "throwsError", "throwsNull"}

\* Whether the setup step ends normally: v = 1 calls app.graph.serialize() as it
\* is, v = 2 calls app.graph?.serialize?.().
SetupCompletes(v, fault) ==
    \/ fault = "ok"
    \/ v = 2 /\ fault \in {"graphAbsent", "absent"}

\* setTimeout(..., 100) is the setup's successor inside the same try block: it
\* is reached only when the setup ends normally.
SchedulesEnqueue(v, fault) == SetupCompletes(v, fault)

\* The outer catch logs the error and then reads error.message: on a nullish
\* thrown value that read throws out of the handler.
CatchEscapes(v, fault) == ~SetupCompletes(v, fault) /\ fault = "throwsNull"

\* The textbatch-add-queue handler, whole. proc: app.isProcessing.
AddQueue(proc, fault) ==
    /\ Loaded
    /\ nEvents < MaxEvents
    /\ nEvents' = nEvents + 1
    /\ timers' = IF SchedulesEnqueue(variant, fault)
                 THEN Append(timers, Timer("queue", nEvents + 1, QueueDelay))
                 ELSE timers
    /\ obs' = [BlankObs EXCEPT
                 !.op = "addqueue", !.e = nEvents + 1, !.fault = fault, !.proc = proc,
                 !.sched = IF SchedulesEnqueue(variant, fault) THEN 1 ELSE 0,
                 !.out = IF SetupCompletes(variant, fault) THEN "scheduled" ELSE "caught",
                 !.errors = IF SetupCompletes(variant, fault) THEN 0
                            ELSE IF CatchEscapes(variant, fault) THEN 1 ELSE 2,
                 !.escaped = CatchEscapes(variant, fault)]
    /\ UNCHANGED <<countVars, procVars, addWidget>>
    /\ UNCHANGED <<variant, life, nid, widgets, nstatus, nodeIdMap, nFeedback, calls, born, reg>>

\* The faults of the scheduled call, app.queuePrompt(0, 1).
EnqueueFaults == {"ok", "absent", "throwsError", "throwsNull"}

\* One execution of the call statement: the event it answers, the time since
\* that event, the arguments, and whether the host had the function to call.
Call(e, waited, made) ==
    [e |-> e, waited |-> waited, number |-> QueueNumber, batch |-> QueueBatch, made |-> made]

\* The timer callback of the queue trigger, whole.
QueueTimerFires(i, fault) ==
    /\ MayFire(i)
    /\ timers[i].kind = "queue"
    /\ timers' = RemoveAt(timers, i)
    /\ calls' = Append(calls, Call(timers[i].who, timers[i].waited, fault # "absent"))
    /\ obs' = [BlankObs EXCEPT
                 !.op = "timer_q", !.e = timers[i].who, !.fault = fault,
                 !.out = IF fault = "ok" \/ (variant = 2 /\ fault = "absent")
                         THEN "done" ELSE "caught",
                 !.errors = IF fault = "ok" \/ (variant = 2 /\ fault = "absent")
                            THEN 0 ELSE 1]
    /\ UNCHANGED <<countVars, procVars, addWidget>>
    /\ UNCHANGED <<variant, life, nid, widgets, nstatus, nodeIdMap, nEvents, nFeedback, born, reg>>

\* ------------------------------------------------------------ the node lifecycle
\* An identifier the host has assigned: neither absent nor the placeholder.
ValidId(id) == Truthy(id) /\ id # Placeholder

\* The creation hook's check, !this.id || this.id === -1: the negation of it.
CreationCheck(id) == ~(~Truthy(id) \/ id = Placeholder)

\* A plausible slip of the deferred check: registering whatever this.id is.
RetryUnchecked(id) == TRUE

\* The deferred callback's check, this.id && this.id !== -1.
RetryCheck(id) == Truthy(id) /\ id # Placeholder

\* A plausible slip of the registration: the status widget not attached.
StatusWidgetDropped(wl) == wl

\* this.addWidget("text", "status", "", callback): the host appends the widget,
\* creating the list when the node has none.
AddStatusWidget(wl) ==
    [present |-> TRUE, items |-> Append(wl.items, Widget("status", Str(<<>>), "status"))]

\* A plausible slip of the attaching statement: the widget attached whether or
\* not the node has the method.
AttachAlways(has, wl) == AddStatusWidget(wl)

\* The attaching statement of a registration, this.addWidget(...) in the first
\* build and this.addWidget?.(...) in the second: a node without the method
\* gets no widget.
Attach(has, wl) == IF has THEN AddStatusWidget(wl) ELSE wl

\* Whether the attaching statement throws: the plain call of the first build
\* on a node without the method is a TypeError, which nothing catches; the
\* optional call of the second build is skipped.
AttachThrows(v, has) == v = 1 /\ ~has

\* The identifiers in use by the nodes the host holds.
UsedIds == {nid[n] : n \in {m \in Objs : life[m] \in {"created", "inGraph"}}}

\* The node object the host constructs next.
NextNode == PickNode({n \in Objs : life[n] = "none"})

\* The host constructs a node of a hooked type and runs onNodeCreated, whole.
\* id0: this.id at that time; tmpl: the widgets the node is constructed with.
Create(id0, tmpl, has) ==
    LET n == NextNode
        valid == CreationCheck(id0)
    IN  /\ Loaded
        /\ n # None
        /\ id0 \notin UsedIds
        /\ life' = [life EXCEPT ![n] = "created"]
        /\ nid' = [nid EXCEPT ![n] = id0]
        /\ born' = [born EXCEPT ![n] = IF valid THEN "valid" ELSE "invalid"]
        /\ IF valid
           THEN /\ nodeIdMap' = CacheSet(nodeIdMap, id0, n)
                /\ reg' = [reg EXCEPT ![n] = "sync"]
                /\ widgets' = [widgets EXCEPT ![n] = Attach(has, tmpl)]
                /\ obs' = [BlankObs EXCEPT !.escaped = AttachThrows(variant, has)]
                /\ UNCHANGED timers
                /\ UNCHANGED scheduled
           ELSE /\ timers' = Append(timers, Timer("reg", n, RegDelay))
                /\ scheduled' = [scheduled EXCEPT ![n] = @ + 1]
                /\ widgets' = [widgets EXCEPT ![n] = tmpl]
                /\ obs' = BlankObs
                /\ UNCHANGED <<nodeIdMap, reg>>
        /\ addWidget' = [addWidget EXCEPT ![n] = has]
        /\ checks' = [checks EXCEPT ![n] = @ + 1]
        /\ UNCHANGED procVars
        /\ UNCHANGED <<variant, nstatus, nEvents, nFeedback, calls>>

\* The host adds a constructed node to the graph, giving it the identifier k
\* when it has none yet.
HostAdd(n, k) ==
    /\ life[n] = "created"
    /\ IF ValidId(nid[n]) THEN k = nid[n] ELSE k \in HostIds \ UsedIds
    /\ nid' = [nid EXCEPT ![n] = k]
    /\ life' = [life EXCEPT ![n] = "inGraph"]
    /\ obs' = BlankObs
    /\ UNCHANGED <<countVars, procVars, addWidget>>
    /\ UNCHANGED <<variant, widgets, nstatus, nodeIdMap, timers, nEvents, nFeedback, calls, born, reg>>

\* The timer callback of the deferred registration, whole.
RegTimerFires(i) ==
    LET n == timers[i].who
        valid == RetryCheck(nid[n])
    IN  /\ MayFire(i)
        /\ timers[i].kind = "reg"
        /\ timers' = RemoveAt(timers, i)
        /\ IF valid
           THEN /\ nodeIdMap' = CacheSet(nodeIdMap, nid[n], n)
                /\ reg' = [reg EXCEPT ![n] = "deferred"]
                /\ widgets' = [widgets EXCEPT ![n] = Attach(addWidget[n], @)]
                /\ obs' = [BlankObs EXCEPT !.escaped = AttachThrows(variant, addWidget[n])]
           ELSE /\ reg' = [reg EXCEPT ![n] = "skipped"]
                /\ obs' = BlankObs
                /\ UNCHANGED <<nodeIdMap, widgets>>
        /\ checks' = [checks EXCEPT ![n] = @ + 1]
        /\ UNCHANGED scheduled
        /\ UNCHANGED <<procVars, addWidget>>
        /\ UNCHANGED <<variant, life, nid, nstatus, nEvents, nFeedback, calls, born>>

\* The values the host may call the status widget's callback with.
StatusInputs == {Str(<<>>), Str(<<"o", "k">>)}

\* The callback of the status widget, (v) => { this.status = v }, called by the
\* host with the value v, whole.
StatusCallback(n, v) ==
    /\ life[n] \in {"created", "inGraph"}
    /\ \E i \in 1..Len(widgets[n].items) : widgets[n].items[i].cb = "status"
    /\ nstatus' = [nstatus EXCEPT ![n] = v]
    /\ obs' = [BlankObs EXCEPT !.op = "statuscb", !.node = n]
    /\ UNCHANGED <<countVars, procVars, addWidget>>
    /\ UNCHANGED <<variant, life, nid, widgets, nodeIdMap, timers, nEvents, nFeedback, calls,
                   born, reg>>

\* A plausible slip of the eviction: the removal hook never deleting.
EvictsNever(v, id) == FALSE

\* The key onRemoved evicts: v = 1 deletes this.id whatever it is, v = 2 only
\* when this.id is truthy.
Evicts(v, id) == v = 1 \/ Truthy(id)

\* if (onNodeRemoved) onNodeRemoved.apply(this, arguments): the invocations of
\* the previously installed handler.
PrevCalls(hasPrev) == IF hasPrev THEN 1 ELSE 0

\* The arguments the host may call onRemoved with.
ArgInputs == {<<>>, <<"a">>}

\* The effects of onRemoved in the order of the statements: the eviction, then
\* the previous handler.
RemovalSteps(v, id, hasPrev) ==
    (IF Evicts(v, id) THEN <<"delete">> ELSE <<>>) \o (IF hasPrev THEN <<"prev">> ELSE <<>>)

\* The host removes a node from the graph and runs onRemoved, whole. hasPrev:
\* whether the prototype had an onRemoved before; args: the call's arguments.
Remove(n, hasPrev, args) ==
    /\ life[n] = "inGraph"
    /\ life' = [life EXCEPT ![n] = "removed"]
    /\ nodeIdMap' = IF Evicts(variant, nid[n]) THEN CacheDelete(nodeIdMap, nid[n])
                    ELSE nodeIdMap
    /\ obs' = [BlankObs EXCEPT !.op = "remove", !.node = n, !.hasPrev = hasPrev,
                               !.prev = PrevCalls(hasPrev),
                               !.steps = RemovalSteps(variant, nid[n], hasPrev),
                               !.args = args,
                               !.prevArgs = IF hasPrev THEN args ELSE <<>>]
    /\ UNCHANGED <<countVars, procVars, addWidget>>
    /\ UNCHANGED <<variant, nid, widgets, nstatus, timers, nEvents, nFeedback, calls, born, reg>>

\* ------------------------------------------------------------ the processor classes
ProcessorTypes == {"TextQueueProcessor", "ImageQueueProcessor"}

\* Whether the build declares the class of the type: v = 2 declares
\* TextQueueProcessorNode only and leaves ImageQueueProcessorNode to a comment.
ClassDefined(v, t) == t = "TextQueueProcessor" \/ (v = 1 /\ t = "ImageQueueProcessor")

\* A property of an object: its name and whether it is enumerable.
Property(name, enumerable) == [name |-> name, enumerable |-> enumerable]

\* The own properties of the class's prototype: the constructor and the
\* methods of the class body, none of them enumerable.
ClassPrototype(v, t) ==
    { Property("constructor", FALSE), Property("addCustomWidgets", FALSE),
      Property("triggerReset", FALSE) }

\* Object.assign(target, source): the own enumerable properties of the source
\* are copied to the target.
ObjectAssign(target, source) == target \cup {p.name : p \in {q \in source : q.enumerable}}

\* The buttons addCustomWidgets attaches, in order: v = 1 attaches three,
\* v = 2 the reset button only.
ButtonNames(v) == IF v = 1 THEN <<"Reset", "ToStart", "ToEnd">> ELSE <<"Reset">>

\* beforeRegisterNodeDef of the rgthree.TextBatch extension, whole, for the
\* node type t.
RegisterNodeDef(t) ==
    /\ Loaded
    /\ ~protos[t].registered
    /\ protos' = [protos EXCEPT ![t] =
          IF t \notin ProcessorTypes THEN [@ EXCEPT !.registered = TRUE]
          ELSE IF ~ClassDefined(variant, t)
          THEN \* ImageQueueProcessorNode is not declared: a ReferenceError
               [@ EXCEPT !.registered = TRUE, !.threw = TRUE]
          ELSE [@ EXCEPT !.registered = TRUE,
                         !.methods = ObjectAssign(@, ClassPrototype(variant, t))]]
    /\ obs' = BlankObs
    /\ UNCHANGED <<variant, life, nid, widgets, nstatus, nodeIdMap, timers, nEvents, nFeedback,
                   calls, born, reg, countVars, addWidget, pnodes, promises, submits>>

\* The function new nodeType() evaluates: the host's node type. Object.assign
\* on the prototype leaves it as it is, and nothing in the file evaluates
\* new TextQueueProcessorNode() or new ImageQueueProcessorNode().
ConstructorRun(t) == "host"

\* The host constructs a node of the registered type t. hasProps: whether the
\* host's constructor gives the node a properties container. The class's
\* constructor body (properties, addCustomWidgets) runs only if the class's
\* constructor is the function evaluated and the method is there to call.
ConstructProcessor(t, hasProps) ==
    LET classRuns == ConstructorRun(t) = "class"
        attaches == classRuns /\ "addCustomWidgets" \in protos[t].methods
    IN  /\ protos[t].registered
        /\ Len(pnodes) < MaxNodes
        /\ pnodes' = Append(pnodes,
              [type |-> t,
               properties |-> hasProps \/ classRuns,
               buttons |-> IF attaches THEN ButtonNames(variant) ELSE <<>>])
        /\ obs' = BlankObs
        /\ UNCHANGED <<variant, life, nid, widgets, nstatus, nodeIdMap, timers, nEvents,
                       nFeedback, calls, born, reg, countVars, addWidget, protos, promises, submits>>

\* ------------------------------------------------------------ the buttons' callbacks
\* Whether the class of type t has, in build v, the callback of the button.
HasCallback(v, t, button) ==
    /\ ClassDefined(v, t)
    /\ \E i \in 1..Len(ButtonNames(v)) : ButtonNames(v)[i] = button

\* ToNumber.
ToNum(v) ==
    CASE v.t \in {"num", "inf"} -> v
      [] v.t = "str" -> StrToNumber(v.s)
      [] OTHER -> NaN

\* v ?? d.
NullishOr(v, d) == IF v.t = "undef" THEN d ELSE v

\* v > 0.
GreaterThanZero(v) == ToNum(v).t \in {"num", "inf"} /\ ToNum(v).n > 0

\* v - 1.
MinusOne(v) ==
    CASE ToNum(v).t = "num" -> Num(ToNum(v).n - 1)
      [] ToNum(v).t = "inf" -> ToNum(v)
      [] OTHER -> NaN

\* The values an output slot may carry: none, numbers, a decimal and a binary
\* numeral, Infinity.
TotalInputs ==
    {Undef, Num(0), Num(3), Num(-2), Str(<<"5">>), Str(<<"0", "b", "1", "1">>), Inf(1)}

\* this.outputs: absent, or a list of slots, each given by its value.
OutputInputs ==
    {[present |-> FALSE, slots |-> <<>>]} \cup
    {[present |-> TRUE, slots |-> sl] :
        sl \in {<<>>}
               \cup {<<Undef, Undef, a>> : a \in TotalInputs}
               \cup {<<Undef, Undef, Num(0), b>> : b \in {Undef, Num(3)}}
               \cup {<<Undef, Undef, Num(3), Num(0)>>}}

\* A plausible slip of the slot: the first output read.
SlotIndexZero(t) == 0

\* The index of the output slot the jump-to-end callback reads.
SlotIndex(t) == IF t = "TextQueueProcessor" THEN 2 ELSE 3

\* this.outputs?.[index]?.value ?? 0.
ReadTotal(t, outputs) ==
    NullishOr(IF outputs.present /\ Len(outputs.slots) > SlotIndex(t)
              THEN outputs.slots[SlotIndex(t) + 1] ELSE Undef,
              Num(0))

\* this.widgets.find(w => w.name === "start_index").value = value: the widgets
\* afterwards; a TypeError, and no change, when the list or the widget is absent.
StartIndexAbsent(n) ==
    ~widgets[n].present \/ FindWidget(widgets[n].items, "start_index") = 0

SetStartIndex(n, value) ==
    IF StartIndexAbsent(n) THEN widgets
    ELSE [widgets EXCEPT ![n].items[FindWidget(widgets[n].items, "start_index")].value = value]

\* The jump-to-start callback of the class of type t, whole, with this = n.
ToStart(n, t) ==
    /\ life[n] \in {"created", "inGraph"}
    /\ HasCallback(variant, t, "ToStart")
    /\ widgets' = SetStartIndex(n, Num(0))
    /\ obs' = [BlankObs EXCEPT !.op = "tostart", !.node = n, !.ptype = t,
                               !.out = IF StartIndexAbsent(n) THEN "threw" ELSE "set",
                               !.escaped = StartIndexAbsent(n)]
    /\ UNCHANGED <<variant, life, nid, nstatus, nodeIdMap, timers, nEvents, nFeedback, calls,
                   born, reg, countVars, addWidget, procVars>>

\* The jump-to-end callback of the class of type t, whole, with this = n.
\* outputs: this.outputs at the time of the press.
ToEnd(n, t, outputs) ==
    LET total == ReadTotal(t, outputs)
        sets == GreaterThanZero(total)
    IN  /\ life[n] \in {"created", "inGraph"}
        /\ HasCallback(variant, t, "ToEnd")
        /\ widgets' = IF sets THEN SetStartIndex(n, MinusOne(total)) ELSE widgets
        /\ obs' = [BlankObs EXCEPT !.op = "toend", !.node = n, !.ptype = t,
                                   !.outputs = outputs, !.total = total,
                                   !.out = IF ~sets THEN "skipped"
                                           ELSE IF StartIndexAbsent(n) THEN "threw" ELSE "set",
                                   !.escaped = sets /\ StartIndexAbsent(n)]
        /\ UNCHANGED <<variant, life, nid, nstatus, nodeIdMap, timers, nEvents, nFeedback,
                       calls, born, reg, countVars, addWidget, procVars>>

\* ------------------------------------------------------------ the reset action
\* triggerReset of the class of type t, whole, with this = n. gtp: whether the
\* host has app.graphToPrompt ("ok") or not ("absent"). An absent function is
\* a TypeError out of the method for v = 1 and ends the ?. chain for v = 2.
TriggerReset(n, t, gtp) ==
    /\ life[n] \in {"created", "inGraph"}
    /\ HasCallback(variant, t, "Reset")
    /\ Len(promises) < MaxResets
    /\ promises' = IF gtp = "ok"
                   THEN Append(promises, [node |-> n, state |-> "pending", outcome |-> ""])
                   ELSE promises
    /\ obs' = [BlankObs EXCEPT !.op = "reset", !.node = n, !.ptype = t, !.fault = gtp,
                               !.out = IF gtp = "ok" THEN "asked"
                                       ELSE IF variant = 1 THEN "threw" ELSE "skipped",
                               !.escaped = gtp # "ok" /\ variant = 1]
    /\ UNCHANGED <<variant, life, nid, widgets, nstatus, nodeIdMap, timers, nEvents, nFeedback,
                   calls, born, reg, countVars, addWidget, protos, pnodes, submits>>

\* How the promise of app.graphToPrompt() may settle: rejected, or fulfilled
\* with nothing, with a workflow that has no output, or with one that has.
PromiseOutcomes == {"rejected", "undefined", "noOutput", "withOutput"}

\* A plausible slip of the guard: the prompt submitted whatever was serialized.
SubmitsAlways(v, outcome, qp) == TRUE

\* Whether the then-callback calls app.queuePrompt(workflow.output,
\* workflow.workflow): if (workflow.output), and the host has the function
\* (v = 1 throws a TypeError on an absent one, v = 2 skips the call).
Submits(v, outcome, qp) == outcome = "withOutput" /\ qp = "ok"

\* The promise of reset k settles and its then-callback, if fulfilled, runs
\* whole. qp: whether the host has app.queuePrompt.
PromiseSettles(k, outcome, qp) ==
    /\ k \in 1..Len(promises)
    /\ promises[k].state = "pending"
    /\ promises' = [promises EXCEPT ![k] = [@ EXCEPT !.state = "settled", !.outcome = outcome]]
    /\ submits' = IF Submits(variant, outcome, qp)
                  THEN Append(submits, [reset |-> k, output |-> "output",
                                        workflow |-> "workflow"])
                  ELSE submits
    /\ obs' = [BlankObs EXCEPT !.op = "settle", !.e = k]
    /\ UNCHANGED <<variant, life, nid, widgets, nstatus, nodeIdMap, timers, nEvents, nFeedback,
                   calls, born, reg, countVars, addWidget, protos, pnodes>>

\* ------------------------------------------------------------ the specifications
\* The callbacks of the processor classes' buttons, applied to the nodes the
\* creation hook has registered.
NextButtons ==
    \/ \E id0 \in HostIds, tmpl \in {w \in WidgetTemplates : \A i \in 1..Len(w.items) : w.items[i].cb = "none"} :
          Create(id0, tmpl, TRUE)
    \/ \E n \in Objs, t \in ProcessorTypes : ToStart(n, t)
    \/ \E n \in Objs, t \in ProcessorTypes, outputs \in OutputInputs : ToEnd(n, t, outputs)

\* The reset action of the processor classes and the promise it waits for,
\* over the nodes the creation hook has registered.
NextReset ==
    \/ \E id0 \in HostIds :
          Create(id0, [present |-> TRUE, items |-> <<Widget("start_index", Num(0), "none")>>], TRUE)
    \/ \E n \in Objs, t \in ProcessorTypes, gtp \in {"ok", "absent"} : TriggerReset(n, t, gtp)
    \/ \E k \in 1..Len(promises), outcome \in PromiseOutcomes, qp \in {"ok", "absent"} :
          PromiseSettles(k, outcome, qp)

\* The processor classes: the registration of the node types and the
\* construction of their nodes by the host.
NextProcessor ==
    \/ \E t \in NodeTypes : RegisterNodeDef(t)
    \/ \E t \in NodeTypes, hasProps \in BOOLEAN : ConstructProcessor(t, hasProps)

\* The node lifecycle: construction of nodes with and without an addWidget
\* method, the host's graph, the deferred registration, removal.
NextLife ==
    \/ \E id0 \in {Undef, Placeholder} \cup HostIds, tmpl \in WidgetTemplates, has \in BOOLEAN :
          Create(id0, tmpl, has)
    \/ \E n \in Objs, k \in HostIds : HostAdd(n, k)
    \/ \E i \in 1..Len(timers) : RegTimerFires(i)
    \/ \E n \in Objs, hasPrev \in BOOLEAN : Remove(n, hasPrev, <<>>)

\* The queue trigger: the event, the passing of time, the scheduled call.
NextQueue ==
    \/ \E proc \in BOOLEAN, fault \in SerializeFaults : AddQueue(proc, fault)
    \/ \E i \in 1..Len(timers), fault \in EnqueueFaults : QueueTimerFires(i, fault)
    \/ Advance

\* The feedback router.
NextFeedback == \E x \in FeedbackInputs : Feedback(x[1], x[2], x[3])

\* The feedback router over the graphs and caches the lifecycle produces.
NextRouter ==
    \/ \E id0 \in {Placeholder} \cup HostIds, tmpl \in WidgetTemplates : Create(id0, tmpl, TRUE)
    \/ \E n \in Objs, k \in HostIds : HostAdd(n, k)
    \/ \E i \in 1..Len(timers) : RegTimerFires(i)
    \/ \E n \in Objs : Remove(n, FALSE, <<>>)
    \/ NextFeedback

\* The removal hook under every way the host may call it, over the caches the
\* lifecycle produces.
NextRemoval ==
    \/ \E id0 \in {Placeholder} \cup HostIds, tmpl \in WidgetTemplates : Create(id0, tmpl, TRUE)
    \/ \E n \in Objs, k \in HostIds : HostAdd(n, k)
    \/ \E i \in 1..Len(timers) : RegTimerFires(i)
    \/ \E n \in Objs, hasPrev \in BOOLEAN, args \in ArgInputs : Remove(n, hasPrev, args)

\* The queue trigger with node creations, removals and deferred registrations
\* interleaved: the two kinds of timers share the timer queue.
NextMixed ==
    \/ \E proc \in BOOLEAN, fault \in SerializeFaults : AddQueue(proc, fault)
    \/ \E i \in 1..Len(timers), fault \in EnqueueFaults : QueueTimerFires(i, fault)
    \/ Advance
    \/ \E id0 \in {Placeholder} : Create(id0, [present |-> FALSE, items |-> <<>>], TRUE)
    \/ \E n \in Objs, k \in HostIds : HostAdd(n, k)
    \/ \E i \in 1..Len(timers) : RegTimerFires(i)
    \/ \E n \in Objs : Remove(n, FALSE, <<>>)

\* The feedback events of the frame check: one value, every target widget and
\* type tag, the identifier as a number and as a string.
FrameInputs == {x \in AssignmentInputs : x[1].value = Str(<<"4", "2">>) /\ ~x[3]}

\* All handlers together: both event handlers, the timers and the lifecycle
\* hooks, over nodes constructed with a start_index widget.
NextFrame ==
    \/ \E id0 \in {Placeholder} \cup HostIds :
          Create(id0, [present |-> TRUE, items |-> <<Widget("start_index", Num(0), "host")>>], TRUE)
    \/ \E n \in Objs, k \in HostIds : HostAdd(n, k)
    \/ \E i \in 1..Len(timers) : RegTimerFires(i)
    \/ \E n \in Objs : Remove(n, FALSE, <<>>)
    \/ \E x \in FrameInputs : Feedback(x[1], x[2], x[3])
    \/ \E proc \in BOOLEAN, fault \in {"ok", "throwsError"} : AddQueue(proc, fault)
    \/ \E i \in 1..Len(timers) : QueueTimerFires(i, "ok")
    \/ Advance

\* The node lifecycle over nodes with and without an addWidget method,
\* constructed without widgets.
NextAttach ==
    \/ \E id0 \in {Placeholder} \cup HostIds, has \in BOOLEAN :
          Create(id0, [present |-> FALSE, items |-> <<>>], has)
    \/ \E n \in Objs, k \in HostIds : HostAdd(n, k)
    \/ \E i \in 1..Len(timers) : RegTimerFires(i)
    \/ \E n \in Objs : Remove(n, FALSE, <<>>)
    \/ \E n \in Objs, v \in StatusInputs : StatusCallback(n, v)

Next ==
    \/ NextLife \/ NextQueue \/ NextFeedback
    \/ \E n \in Objs, v \in StatusInputs : StatusCallback(n, v)

\* The whole extension.
Spec == Init /\ [][Next]_vars

\* The three components share no state but the timer queue, where a timer of
\* one never runs, cancels or reorders a timer of the other; each is checked
\* on its own, the router together with the lifecycle that builds the cache
\* and the graph it reads.
SpecLife == Init /\ [][NextLife]_vars

SpecQueue == Init /\ [][NextQueue]_vars

SpecRouter == Init /\ [][NextRouter]_vars

SpecRemoval == Init /\ [][NextRemoval]_vars

SpecProcessor == Init /\ [][NextProcessor]_vars

SpecButtons == Init /\ [][NextButtons]_vars

SpecFrame == Init /\ [][NextFrame]_vars

SpecReset == Init /\ [][NextReset]_vars

SpecAttach == Init /\ [][NextAttach]_vars

\* The event loop runs every timer that is due, and time passes.
SpecMixed ==
    /\ Init /\ [][NextMixed]_vars
    /\ WF_vars(Advance)
    /\ WF_vars(\E i \in 1..Len(timers), fault \in EnqueueFaults : QueueTimerFires(i, fault))
    /\ WF_vars(\E i \in 1..Len(timers) : RegTimerFires(i))

\* ------------------------------------------------------------ the feedback router's claims
\* The node the last feedback event resolves to, None when it resolves to none.
Target == Resolve(variant, nodeIdMap, obs.hc, obs.ev.node_id).node

\* The last step ran the feedback handler on an event whose node_id resolves to
\* a node that has a widget of the event's widget_name.
FeedbackOnKnownWidget ==
    /\ obs.op = "feedback"
    /\ obs.ev.detail /\ Truthy(obs.ev.node_id)
    /\ Target # None
    /\ FindWidget(widgets[Target].items, obs.ev.widget_name) # 0

TargetIndex == FindWidget(widgets[Target].items, obs.ev.widget_name)

TargetWidget == widgets[Target].items[TargetIndex]

\* C1: after the handler has run on an event whose node_id resolves to a node
\* and whose widget_name names a widget of that node, the widget's value is the
\* event's value, parsed as an integer under type "int", and the widget's
\* callback, when it has one, has been invoked exactly once, with that value
\* (the status widget's callback has stored it in this.status).
C1_FeedbackSetsWidgetAndNotifies ==
    FeedbackOnKnownWidget =>
        /\ obs.node = Target
        /\ TargetWidget.value =
              (IF obs.ev.type = "int" THEN ParseInt(obs.ev.value) ELSE obs.ev.value)
        /\ obs.cbs = IF TargetWidget.cb = "none" THEN <<>>
                     ELSE <<CbCall(Target, TargetIndex, TargetWidget.value)>>
        /\ TargetWidget.cb = "status" => nstatus[Target] = TargetWidget.value

\* A feedback event has set a widget that has a callback, found through the
\* host's lookups, and the callback got the parsed value.
C1_Witness ==
    /\ FeedbackOnKnownWidget
    /\ "table" \in {obs.consulted[j] : j \in 1..Len(obs.consulted)}
    /\ TargetWidget.cb = "host"
    /\ obs.cbs = <<CbCall(Target, TargetIndex, Num(42))>>

\* What "the event's node_id is known to nobody" means before the handler
\* runs: not a key of the cache, and in none of the host's three lookups.
Unknown(id) ==
    /\ CacheGet(nodeIdMap, id) = None
    /\ TableLookup(id) = None
    /\ GetterLookup(ParseInt(id)) = None
    /\ ScanLookup(id) = None

\* C2: a feedback event whose node_id is found neither in the cache nor by any
\* host lookup mutates no widget, invokes no callback and logs exactly one
\* warning.
C2_UnknownNodeWarnsOnce ==
    [][ (/\ obs'.op = "feedback"
         /\ obs'.ev.detail /\ Truthy(obs'.ev.node_id)
         /\ Unknown(obs'.ev.node_id))
        => (/\ widgets' = widgets
            /\ nstatus' = nstatus
            /\ obs'.cbs = <<>>
            /\ obs'.warns = 1) ]_vars

\* The integers the values of the events denote to parseInt, written out.
IntegerOf(value) ==
    CASE value = Str(<<"4", "2">>) -> Num(42)
      [] value = Str(<<"-", "3", "x">>) -> Num(-3)
      [] value = Num(7) -> Num(7)
      [] OTHER -> NaN

\* C3: under type "int" the widget gets the integer parsed from the event's
\* value ("42" gives the number 42, not the string); under any other type tag it
\* gets the event's value unchanged.
C3_IntTagParsesValue ==
    FeedbackOnKnownWidget =>
        /\ obs.ev.type = "int" =>
              /\ TargetWidget.value = IntegerOf(obs.ev.value)
              /\ TargetWidget.value.t \in {"num", "nan"}
        /\ obs.ev.type # "int" => TargetWidget.value = obs.ev.value

\* The event {type: "int", value: "42"} has left the number 42 in the widget.
C3_Witness ==
    /\ FeedbackOnKnownWidget
    /\ obs.ev.type = "int"
    /\ obs.ev.value = Str(<<"4", "2">>)
    /\ TargetWidget.value = Num(42)

LookupOrder == <<"cache", "table", "getter", "scan">>

IsPrefix(a, b) == Len(a) <= Len(b) /\ SubSeq(b, 1, Len(a)) = a

\* C10: the node is resolved through the cache first (a hit consults nothing
\* else), then the table, the getter and the scan, and an absent host
\* collection makes its lookup find nothing and never aborts the resolution.
C10_OrderedGuardedResolution ==
    (obs.op = "feedback" /\ obs.ev.detail /\ Truthy(obs.ev.node_id)) =>
        /\ obs.consulted # <<>> /\ obs.consulted[1] = "cache"
        /\ CacheGet(nodeIdMap, obs.ev.node_id) # None =>
              /\ obs.consulted = <<"cache">>
              /\ obs.node = CacheGet(nodeIdMap, obs.ev.node_id)
        /\ (obs.hc.graph /\ obs.hc.table /\ obs.hc.getter /\ obs.hc.list) =>
              IsPrefix(obs.consulted, LookupOrder)
        /\ obs.hc.graph => ~(obs.out = "caught" /\ obs.node = None)

\* ------------------------------------------------------------ the queue trigger's claims
QueueTimersOf(e) == {i \in 1..Len(timers) : timers[i].kind = "queue" /\ timers[i].who = e}

CallsOf(e) == {j \in 1..Len(calls) : calls[j].e = e}

\* C4: each textbatch-add-queue event gets exactly one enqueue call
\* queuePrompt(0, 1): once the event is received, either its timer is pending or
\* the call has been made once, and no call is made less than 100 time units
\* after its event.
C4_EnqueuedOnceAfterDelay ==
    /\ \A e \in 1..nEvents : Cardinality(QueueTimersOf(e)) + Cardinality(CallsOf(e)) = 1
    /\ \A j \in 1..Len(calls) :
          /\ calls[j].waited >= QueueDelay
          /\ calls[j].number = 0 /\ calls[j].batch = 1

\* C8: no failure of the feedback handler, of the queue-trigger handler or of
\* its scheduled call leaves the handler: whatever is thrown is caught and logged.
C8_NoFailureEscapes ==
    obs.op \in {"feedback", "addqueue", "timer_q"} =>
        /\ ~obs.escaped
        /\ obs.out = "caught" => obs.errors >= 1

\* C9: the queue-trigger handler schedules the enqueue unconditionally:
\* whatever the payload, whether or not the host is processing, whether or not
\* the setup (the serialization) fails, one timer of 100 time units is set.
C9_AlwaysSchedules ==
    obs.op = "addqueue" =>
        /\ obs.sched = 1
        /\ \E i \in 1..Len(timers) : timers[i] = Timer("queue", obs.e, QueueDelay)

\* ------------------------------------------------------------ the lifecycle's claims
CachedNodes == {nodeIdMap[k] : k \in DOMAIN nodeIdMap}

HasStatusWidget(n) == \E i \in 1..Len(widgets[n].items) : widgets[n].items[i].name = "status"

\* C5: a node created with the identifier -1 or none enters the cache only in
\* the deferred check, and only if that check saw a valid identifier; if the
\* check saw none, the node is never in the cache and never gets a status widget.
C5_DeferredRegistrationOnly ==
    \A n \in Objs : born[n] = "invalid" =>
        /\ n \in CachedNodes => (reg[n] = "deferred" /\ nodeIdMap[nid[n]] = n)
        /\ reg[n] = "deferred" => ValidId(nid[n])
        /\ \A k \in DOMAIN nodeIdMap : nodeIdMap[k] = n => ValidId(k)
        /\ reg[n] \in {"no", "skipped"} => (n \notin CachedNodes /\ ~HasStatusWidget(n))

\* One node was registered by its deferred check, another's deferred check saw
\* no valid identifier and the host gave it one afterwards.
C5_Witness ==
    \E n, m \in Objs :
        /\ born[n] = "invalid" /\ reg[n] = "deferred" /\ n \in CachedNodes
        /\ born[m] = "invalid" /\ reg[m] = "skipped" /\ life[m] = "inGraph"

\* C6: the removal of a node whose identifier is no key of the cache leaves the
\* cache as it was, and the previously installed removal handler, if there is
\* one, is invoked exactly once.
C6_UnregisteredRemovalIsNoOp ==
    [][ (obs'.op = "remove" /\ CacheGet(nodeIdMap, nid[obs'.node]) = None)
        => (/\ nodeIdMap' = nodeIdMap
            /\ obs'.prev = IF obs'.hasPrev THEN 1 ELSE 0) ]_vars

\* A node that was never registered has been removed while the cache held
\* another node, and the previous handler ran.
C6_Witness ==
    /\ obs.op = "remove"
    /\ reg[obs.node] \in {"no", "skipped"}
    /\ obs.node \notin CachedNodes
    /\ CachedNodes # {}
    /\ obs.hasPrev /\ obs.prev = 1

\* The cache holds, under the node's identifier, a node that was created with no
\* valid identifier and has been removed.
Stale(n) ==
    /\ born[n] = "invalid"
    /\ life[n] = "removed"
    /\ CacheGet(nodeIdMap, nid[n]) = n

\* C7 as claimed: once the deferred callback has entered a removed node in the
\* cache, that entry is never evicted.
C7_StaleEntryNeverEvicted ==
    [][ \A n \in Objs : Stale(n) => Stale(n)' ]_vars

\* Another node that carries the identifier of n is registered or removed in
\* this step.
SameIdNodeActs(n) ==
    \E m \in Objs \ {n} :
        /\ nid'[m] = nid[n]
        /\ \/ reg'[m] # reg[m] /\ reg'[m] \in {"sync", "deferred"}
           \/ life[m] = "inGraph" /\ life'[m] = "removed"

\* C7, amended: the deferred callback of a node removed before it runs still
\* enters the node in the cache when its identifier is valid, and nothing in that
\* node's own lifecycle evicts the entry: it stays until another node carrying
\* the same identifier is registered (which overwrites it) or removed (which
\* deletes it).
C7_StaleEntryStaysUntilIdReused ==
    [][ \A n \in Objs :
          /\ (life[n] = "removed" /\ reg[n] = "no" /\ reg'[n] # "no" /\ ValidId(nid[n]))
                => Stale(n)'
          /\ (Stale(n) /\ ~Stale(n)') => SameIdNodeActs(n) ]_vars

\* A node removed before its deferred check ran is in the cache.
C7_Witness == \E n \in Objs : Stale(n) /\ reg[n] = "deferred"

\* C12: after the removal hook has run for a node that has an identifier, the
\* cache has no entry under that identifier, whatever creations and removals
\* came before; the eviction precedes the previous handler, which, when there
\* is one, is invoked exactly once, with the arguments of the hook's call.
C12_RemovalEvictsThenDelegates ==
    (obs.op = "remove" /\ Truthy(nid[obs.node])) =>
        /\ CacheGet(nodeIdMap, nid[obs.node]) = None
        /\ obs.steps # <<>> /\ obs.steps[1] = "delete"
        /\ obs.hasPrev =>
              /\ obs.steps = <<"delete", "prev">>
              /\ obs.prev = 1
              /\ obs.prevArgs = obs.args

\* A registered node has been removed by a call with an argument, the previous
\* handler ran, and the cache still holds the other node.
C12_Witness ==
    /\ obs.op = "remove"
    /\ reg[obs.node] \in {"sync", "deferred"}
    /\ obs.hasPrev /\ obs.args = <<"a">> /\ obs.prevArgs = <<"a">>
    /\ CachedNodes # {}

\* The node is live (its removal hook has not run) and the cache maps its
\* identifier to it.
Live(n) == life[n] \in {"created", "inGraph"}

Held(n) == Live(n) /\ CacheGet(nodeIdMap, nid[n]) = n

\* C13 as claimed: a node created with a valid identifier is registered and
\* gets its status widget inside the creation hook, with no timer scheduled, and
\* the cache maps its identifier to it for as long as it is live.
C13_SyncRegistrationHeld ==
    \A n \in Objs : born[n] = "valid" =>
        /\ reg[n] = "sync" /\ scheduled[n] = 0 /\ HasStatusWidget(n)
        /\ Live(n) => CacheGet(nodeIdMap, nid[n]) = n

\* The deferred callback of a removed node that carries the identifier of n
\* registers that node in this step.
StaleRegistration(n) ==
    \E m \in Objs \ {n} :
        /\ life[m] = "removed" /\ nid[m] = nid[n]
        /\ reg[m] = "no" /\ reg'[m] = "deferred"

\* C13, amended: a node created with a valid identifier is registered inside
\* the creation hook, with no timer scheduled, and gets its status widget there
\* exactly when it has an addWidget method; the cache maps its identifier to it
\* from then until its removal hook runs or the deferred registration of a
\* removed node carrying the same identifier overwrites the entry.
C13_SyncRegistrationHeldUntilOverwritten ==
    [][ \A n \in Objs :
          /\ born'[n] = "valid" =>
                /\ reg'[n] = "sync" /\ scheduled'[n] = 0
                /\ (HasStatusWidget(n)' <=> addWidget'[n])
          /\ (born[n] = "none" /\ born'[n] = "valid") => Held(n)'
          /\ (born[n] = "valid" /\ Held(n) /\ ~Held(n)') =>
                \/ obs'.op = "remove" /\ obs'.node = n
                \/ StaleRegistration(n) ]_vars

\* A node created with a valid identifier sits in the graph, registered in
\* the creation hook, while the other node was registered by its deferred check.
C13_Witness ==
    \E n, m \in Objs :
        /\ born[n] = "valid" /\ life[n] = "inGraph" /\ Held(n) /\ HasStatusWidget(n)
        /\ reg[m] = "deferred"

\* C14: a feedback event with no payload or no node identifier is rejected
\* before any lookup: one error is logged, neither the cache nor the host is
\* consulted, no widget changes and no callback is invoked.
C14_MalformedPayloadRejected ==
    [][ (obs'.op = "feedback" /\ (~obs'.ev.detail \/ obs'.ev.node_id = Undef))
        => (/\ obs'.out = "invalid"
            /\ obs'.errors = 1 /\ obs'.warns = 0
            /\ obs'.consulted = <<>>
            /\ obs'.node = None
            /\ obs'.cbs = <<>>
            /\ widgets' = widgets /\ nstatus' = nstatus) ]_vars

\* An event whose payload has no node_id was rejected while the cache and the
\* graph held a node.
C14_Witness ==
    /\ obs.op = "feedback" /\ obs.out = "invalid"
    /\ obs.ev.detail /\ obs.ev.node_id = Undef
    /\ obs.errors = 1
    /\ CachedNodes # {} /\ InGraph # {}

\* The node has no widget list, or no widget of the name.
NoSuchWidget(n, name) ==
    \/ ~widgets[n].present
    \/ \A i \in 1..Len(widgets[n].items) : widgets[n].items[i].name # name

\* C15: a feedback event whose node is found but has no widget of the event's
\* widget_name, or no widget list, is a no-op: no widget value changes, no
\* callback is invoked, and the handler returns normally.
C15_MissingWidgetIsNoOp ==
    [][ (/\ obs'.op = "feedback"
         /\ obs'.node # None
         /\ NoSuchWidget(obs'.node, obs'.ev.widget_name))
        => (/\ obs'.out \in {"nowidget", "caught"}
            /\ ~obs'.escaped
            /\ obs'.cbs = <<>>
            /\ widgets' = widgets /\ nstatus' = nstatus) ]_vars

\* An event named a widget the resolved node, which has widgets, does not have.
C15_Witness ==
    /\ obs.op = "feedback" /\ obs.out = "nowidget"
    /\ obs.node # None /\ widgets[obs.node].items # <<>>
    /\ obs.ev.widget_name = "missing"
    /\ obs.warns = 1

\* The deferred registrations of node n still pending.
RegTimersOf(n) == {i \in 1..Len(timers) : timers[i].kind = "reg" /\ timers[i].who = n}

\* C16: for each creation the identifier's validity is checked at most twice
\* (in the creation hook and in the one deferred callback) and at most one
\* timer is scheduled; once the deferred check has seen an invalid identifier
\* nothing is pending for the node, which stays out of the cache even when the
\* host gives it a valid identifier later.
C16_AtMostOneRetry ==
    \A n \in Objs :
        /\ checks[n] <= 2 /\ scheduled[n] <= 1
        /\ checks[n] = 2 => (born[n] = "invalid" /\ scheduled[n] = 1 /\ RegTimersOf(n) = {})
        /\ Cardinality(RegTimersOf(n)) <= scheduled[n]
        /\ reg[n] = "skipped" =>
              /\ checks[n] = 2
              /\ RegTimersOf(n) = {}
              /\ n \notin CachedNodes

\* The deferred check of a node saw no valid identifier; the host has since
\* given the node one and added it to the graph, and the node is not registered.
C16_Witness ==
    \E n \in Objs :
        /\ reg[n] = "skipped" /\ checks[n] = 2 /\ scheduled[n] = 1
        /\ life[n] = "inGraph" /\ ValidId(nid[n])
        /\ n \notin CachedNodes

\* C17: queue-trigger events are neither deduplicated nor cancelled: after k
\* events exactly k enqueue calls eventually have been made, one per event, in
\* the order of the events, whatever creations and removals are interleaved.
C17_EveryEventEnqueuedInOrder ==
    <>[](/\ Len(calls) = nEvents
         /\ \A j \in 1..Len(calls) : calls[j].e = j)

\* ------------------------------------------------------------ the processor classes' claims
\* C11: every TextQueueProcessor or ImageQueueProcessor node the host has
\* constructed after the extension registered has a properties container and
\* exactly the three buttons reset, jump-to-start, jump-to-end.
C11_ThreeButtonsAttached ==
    \A i \in 1..Len(pnodes) : pnodes[i].type \in ProcessorTypes =>
        /\ pnodes[i].properties
        /\ pnodes[i].buttons = <<"Reset", "ToStart", "ToEnd">>

\* The value of the node's start_index widget.
StartIndex(n) == widgets[n].items[FindWidget(widgets[n].items, "start_index")].value

\* The widgets after start_index of node n has been given the value, all else equal.
WithStartIndex(n, value) ==
    [widgets EXCEPT ![n].items[FindWidget(widgets[n].items, "start_index")].value = value]

\* The value of the output slot the claim names (the third slot for
\* TextQueueProcessor, the fourth for ImageQueueProcessor), none when the
\* outputs or the slot are absent.
ClaimedTotal(t, outputs) ==
    LET pos == IF t = "TextQueueProcessor" THEN 3 ELSE 4
    IN  IF outputs.present /\ Len(outputs.slots) >= pos THEN outputs.slots[pos] ELSE Undef

\* What jump-to-end leaves in start_index: total - 1 for a positive total (a
\* numeral counts as its number: "5" as 5, "0b11" as 3; Infinity - 1 is
\* Infinity), the old value otherwise.
AfterToEnd(total, old) ==
    CASE ToNum(total).t = "num" /\ ToNum(total).n > 0 -> Num(ToNum(total).n - 1)
      [] ToNum(total) = Inf(1) -> Inf(1)
      [] OTHER -> old

\* C18: the jump-to-start callback sets the node's start_index widget to 0; the
\* jump-to-end callback reads total from output slot 2 (TextQueueProcessor) or 3
\* (ImageQueueProcessor), an absent slot or value counting as 0, and sets
\* start_index to total - 1 when total > 0 and leaves it as it is otherwise;
\* neither changes anything else of any widget.
C18_JumpButtonsSetStartIndex ==
    [][ /\ (obs'.op = "tostart" /\ ~StartIndexAbsent(obs'.node))
            => widgets' = WithStartIndex(obs'.node, Num(0))
        /\ (obs'.op = "toend" /\ ~StartIndexAbsent(obs'.node))
            => widgets' = WithStartIndex(obs'.node,
                   AfterToEnd(ClaimedTotal(obs'.ptype, obs'.outputs), StartIndex(obs'.node))) ]_vars

\* The jump-to-end callback of ImageQueueProcessor found 0 in slot 2 and 3 in
\* slot 3 and has set start_index to 2.
C18_Witness ==
    /\ obs.op = "toend" /\ obs.ptype = "ImageQueueProcessor"
    /\ obs.outputs.slots = <<Undef, Undef, Num(0), Num(3)>>
    /\ ~StartIndexAbsent(obs.node)
    /\ StartIndex(obs.node) = Num(2)

\* The submissions app.queuePrompt(output, workflow) made for reset k.
SubmitsOf(k) == {j \in 1..Len(submits) : submits[j].reset = k}

\* C19: a reset asks the host to serialize the graph (app.graphToPrompt()) and
\* submits the result at most once, and only when the serialized result has an
\* output: a result without output submits nothing. Neither the reset nor the
\* settling of its promise changes the cache or a widget.
C19_ResetSubmitsAtMostOnce ==
    [][ /\ \A k \in 1..Len(promises') :
              /\ Cardinality(SubmitsOf(k)') <= 1
              /\ Cardinality(SubmitsOf(k)') = 1 =>
                    (promises'[k].state = "settled" /\ promises'[k].outcome = "withOutput")
              /\ promises'[k].outcome = "noOutput" => SubmitsOf(k)' = {}
        /\ (obs'.op = "reset" /\ obs'.fault = "ok") => Len(promises') = Len(promises) + 1
        /\ obs'.op \in {"reset", "settle"} =>
              (nodeIdMap' = nodeIdMap /\ widgets' = widgets /\ nstatus' = nstatus) ]_vars

\* Of two resets of registered nodes, one was serialized with an output and
\* submitted once, the other without output and not submitted.
C19_Witness ==
    /\ CachedNodes # {}
    /\ \E k, l \in 1..Len(promises) :
          /\ promises[k].outcome = "withOutput" /\ Cardinality(SubmitsOf(k)) = 1
          /\ promises[l].outcome = "noOutput" /\ SubmitsOf(l) = {}

\* ------------------------------------------------------------ the frame of the handlers
\* The step changes no widget but the value of widgets named name on node n.
OnlyNamedWidgetChanges(n, name) ==
    \A m \in Objs :
        /\ widgets'[m].present = widgets[m].present
        /\ Len(widgets'[m].items) = Len(widgets[m].items)
        /\ \A j \in 1..Len(widgets[m].items) :
              \/ widgets'[m].items[j] = widgets[m].items[j]
              \/ /\ m = n /\ widgets[m].items[j].name = name
                 /\ widgets'[m].items[j] =
                        [widgets[m].items[j] EXCEPT !.value = widgets'[m].items[j].value]
                 /\ \A l \in 1..Len(widgets[m].items) :
                        l # j => widgets'[m].items[l] = widgets[m].items[l]

\* The step leaves the cache, the nodes, the timers and the enqueue calls alone.
FeedbackLeavesRest ==
    /\ nodeIdMap' = nodeIdMap
    /\ life' = life /\ nid' = nid
    /\ timers' = timers /\ calls' = calls

\* Every cache entry that is new or changed in this step was written by the
\* creation hook or the deferred callback of the node it holds, and entries
\* disappear only in the removal hook.
CacheWrittenByLifecycleOnly ==
    /\ \A k \in DOMAIN nodeIdMap' :
          (k \notin DOMAIN nodeIdMap \/ nodeIdMap'[k] # nodeIdMap[k]) =>
              (reg'[nodeIdMap'[k]] # reg[nodeIdMap'[k]]
               /\ reg'[nodeIdMap'[k]] \in {"sync", "deferred"})
    /\ (DOMAIN nodeIdMap \ DOMAIN nodeIdMap' # {}) => obs'.op = "remove"

\* C20 as claimed: a feedback event changes nothing but the value of the named
\* widget of the resolved node; a queue-trigger event changes neither the cache
\* nor a widget; only the creation hook or its deferred callback adds cache
\* entries and only the removal hook deletes them.
C20_HandlersFrame ==
    [][ /\ obs'.op = "feedback" =>
              /\ OnlyNamedWidgetChanges(obs'.node, obs'.ev.widget_name)
              /\ FeedbackLeavesRest
              /\ nstatus' = nstatus
        /\ obs'.op \in {"addqueue", "timer_q"} => (nodeIdMap' = nodeIdMap /\ widgets' = widgets)
        /\ CacheWrittenByLifecycleOnly ]_vars

\* C20, amended: a feedback event changes nothing but the value of the named
\* widget of the resolved node and, when that widget is the status widget, the
\* node's status field, which its callback sets to the assigned value; a
\* queue-trigger event changes neither the cache nor a widget; only the creation
\* hook or its deferred callback adds cache entries and only the removal hook
\* deletes them.
C20_HandlersFrameWithStatus ==
    [][ /\ obs'.op = "feedback" =>
              /\ OnlyNamedWidgetChanges(obs'.node, obs'.ev.widget_name)
              /\ FeedbackLeavesRest
              /\ \A m \in Objs : nstatus'[m] # nstatus[m] =>
                    /\ m = obs'.node /\ obs'.ev.widget_name = "status"
                    /\ nstatus'[m] = Coerce(obs'.ev.type, obs'.ev.value)
        /\ obs'.op \in {"addqueue", "timer_q"} => (nodeIdMap' = nodeIdMap /\ widgets' = widgets)
        /\ CacheWrittenByLifecycleOnly ]_vars

\* A feedback event has set the status widget of one of two registered nodes,
\* after a queue-trigger event.
C20_Witness ==
    /\ obs.op = "feedback" /\ obs.out = "assigned"
    /\ obs.ev.widget_name = "status"
    /\ nstatus[obs.node] = Num(42)
    /\ Cardinality(CachedNodes) = 2
    /\ nEvents > 0

\* The status widgets this extension has attached to a node.
StatusWidgets(n) ==
    Cardinality({i \in 1..Len(widgets[n].items) : widgets[n].items[i].cb = "status"})

\* The step registers node n in the cache, in the creation hook or in the
\* deferred callback.
Registers(n) ==
    /\ reg'[n] # reg[n] /\ reg'[n] \in {"sync", "deferred"}
    /\ CacheGet(nodeIdMap', nid'[n]) = n

\* The step attaches a status widget to node n.
Attaches(n) == StatusWidgets(n)' > StatusWidgets(n)

\* For one creation: at most one status widget; at most one registration,
\* made by the creation hook when it found the identifier valid and otherwise
\* by the one deferred callback, never by both.
OnceEach(n) ==
    /\ StatusWidgets(n)' <= 1
    /\ reg[n] \in {"sync", "deferred"} => reg'[n] = reg[n]
    /\ scheduled'[n] = IF born'[n] = "invalid" THEN 1 ELSE 0
    /\ reg'[n] = "sync" => born'[n] = "valid"
    /\ reg'[n] \in {"deferred", "skipped"} =>
          (born'[n] = "invalid" /\ RegTimersOf(n)' = {})

\* C21 as claimed: for each creation of a node of a hooked type the status
\* widget is attached at most once and the cache registration happens at most
\* once, in the creation hook or in the deferred callback and never in both;
\* a step attaches the status widget if and only if it registers the node.
C21_AttachIffRegistered ==
    [][ \A n \in Objs : OnceEach(n) /\ (Attaches(n) <=> Registers(n)) ]_vars

\* C21, amended: for each creation the status widget is attached at most once
\* and the registration happens at most once, in the creation hook or in the
\* deferred callback and never in both; a status widget is attached only in a
\* step that registers the node, and a registering step attaches it exactly
\* when the node has an addWidget method.
C21_AttachIffRegisteredWithMethod ==
    [][ \A n \in Objs :
          /\ OnceEach(n)
          /\ Attaches(n) => Registers(n)
          /\ Registers(n) => (Attaches(n) <=> addWidget'[n]) ]_vars

\* One node without an addWidget method was registered by the deferred
\* callback and has no status widget; another, with the method, was registered
\* by the creation hook and has one.
C21_Witness ==
    \E n, m \in Objs :
        /\ reg[n] = "deferred" /\ ~addWidget[n] /\ StatusWidgets(n) = 0
        /\ reg[m] = "sync" /\ addWidget[m] /\ StatusWidgets(m) = 1

====
